---- MODULE Spec2Model ----
(***************************************************************************)
(* Device lifecycle of the device-management service.                      *)
(*                                                                         *)
(* State: the Device table (a sequence in insertion order, the primary key *)
(* of a row is its index), the DeviceLog table (append order), the events  *)
(* handed to the message bus, and the outcome of the last HTTP request.    *)
(*                                                                         *)
(* Spec  : every HTTP handler of device_controller.py runs to completion   *)
(*         as one step (requests served one after the other).              *)
(* SpecC : create requests of several workers interleave at the            *)
(*         granularity of their database statements.                       *)
(***************************************************************************)
EXTENDS Integers, Sequences, FiniteSets, TLC

\* ---------------------------------------------------------------------
\* Bounds of the model
\* ---------------------------------------------------------------------
MaxOps == 3
NumSerials == 2
MaxId == 2
NumWorkers == 2
MaxCreates == 3
MaxRequests == 3
MaxRows == 2
MaxPage == 2
MaxPageSize == 2
MaxListings == 2

\* ---------------------------------------------------------------------
\* Values
\* ---------------------------------------------------------------------
None == "None"
NoDate == 0

IN_STOCK == "in_stock"
RESERVED == "reserved"
DEPLOYED == "deployed"
MAINTENANCE == "maintenance"
RETIRED == "retired"

DeviceStatus == {IN_STOCK, RESERVED, DEPLOYED, MAINTENANCE, RETIRED}

DeviceType == {"sensor", "actuator", "gateway", "other"}

\* The types the create requests of the model carry.
CreateTypes == {"sensor"}

SerialOf(i) == IF i = 1 THEN "SN-1" ELSE IF i = 2 THEN "SN-2" ELSE IF i = 3 THEN "SN-3" ELSE "SN-4"

SerialNumbers == {SerialOf(i) : i \in 1..NumSerials}

DeviceIds == 1..MaxId

Locations == {"L1", "L2"}

OptLocations == {None, "", "L1"}

Notes == {"note"}

Workers == 1..NumWorkers

\* What goes wrong outside the program while a status endpoint runs: the
\* commit of the status change raises, the commit of the log entry raises,
\* the publish to the bus fails.
Faults == {"none", "commit", "log"}

ReserveFaults == Faults \cup {"publish", "log_publish"}

CommitOk(f) == f # "commit"

LogOk(f) == f \notin {"log", "log_publish"}

PublishOk(f) == f \notin {"publish", "log_publish"}

HTTP_OK == 200
HTTP_CREATED == 201
HTTP_BAD_REQUEST == 400
HTTP_NOT_FOUND == 404
HTTP_INTERNAL == 500

TelemetryData == {"t1"}
EventTypes == {"alert"}

VARIABLES devices, device_log, published, last, nops, wk, responses

vars == <<devices, device_log, published, last, nops, wk, responses>>

\* Python truth value of an optional string ("if location:")
Truthy(x) == x # None /\ x # ""

\* ---------------------------------------------------------------------
\* Entities
\* ---------------------------------------------------------------------
\* Device(...) as built by the controller; status, deploy_date and
\* last_maintenance_date take the column defaults at insert.
\* Column default of Device.status
default_status == IN_STOCK

Device(name, type, serial_number, description, location, specifications) ==
    [name |-> name, type |-> type, serial_number |-> serial_number,
     description |-> description, location |-> location,
     specifications |-> specifications,
     status |-> default_status, deploy_date |-> NoDate,
     last_maintenance_date |-> NoDate]

NoDevice ==
    [name |-> None, type |-> None, serial_number |-> None,
     description |-> None, location |-> None, specifications |-> None,
     status |-> None, deploy_date |-> NoDate,
     last_maintenance_date |-> NoDate]

DeviceLog(device_id, action, old_status, new_status, notes) ==
    [device_id |-> device_id, action |-> action, old_status |-> old_status,
     new_status |-> new_status, notes |-> notes]

\* datetime.utcnow(): the requests are numbered, the clock is the number of
\* the running request.
utcnow == nops + 1

\* ---------------------------------------------------------------------
\* DeviceDAO: every operator returns the table after the call, ret = the
\* call handed back a device (or True), and raised = session.commit()
\* raised, which the DAO answers with session.rollback().  commit = FALSE
\* makes the commit raise.
\* ---------------------------------------------------------------------
get_device_by_id(devs, device_id) ==
    IF device_id \in DOMAIN devs THEN devs[device_id] ELSE NoDevice

get_device_by_serial(devs, serial_number) ==
    {i \in DOMAIN devs : devs[i].serial_number = serial_number}

\* UNIQUE(serial_number) of the Device table: the INSERT flushed by
\* session.commit() is refused when a row with that serial is stored.
UniqueSerialViolated(devs, device) ==
    get_device_by_serial(devs, device.serial_number) # {}

\* create_device, first statement: the SELECT for a row with the serial.
create_device_existing(devs, device) ==
    get_device_by_serial(devs, device.serial_number) # {}

\* (variant: the except branch of create_device reports success)
create_device_commit_swallows(devs, device, commit) ==
    IF commit /\ ~UniqueSerialViolated(devs, device)
    THEN [ret |-> TRUE, raised |-> FALSE, devices |-> Append(devs, device)]
    ELSE [ret |-> TRUE, devices |-> devs, raised |-> TRUE]

\* create_device, session.add .. session.commit: the row is stored when the
\* commit goes through, otherwise the exception is caught and False returned.
create_device_commit(devs, device, commit) ==
    IF commit /\ ~UniqueSerialViolated(devs, device)
    THEN [ret |-> TRUE, raised |-> FALSE, devices |-> Append(devs, device)]
    ELSE [ret |-> FALSE, devices |-> devs, raised |-> TRUE]

\* (variant: the early return for a stored serial reports success)
DeviceDAO_create_device_reports_created(devs, device, commit) ==
    IF create_device_existing(devs, device)
    THEN [ret |-> TRUE, devices |-> devs, raised |-> FALSE]
    ELSE create_device_commit(devs, device, commit)

DeviceDAO_create_device(devs, device, commit) ==
    IF create_device_existing(devs, device)
    THEN [ret |-> FALSE, devices |-> devs, raised |-> FALSE]
    ELSE create_device_commit(devs, device, commit)

allowed_fields == {"name", "description", "location", "specifications"}

\* The setattr loop of update_device over the keyword arguments.
SetAllowed(device, kwargs) ==
    [c \in DOMAIN device |->
        IF c \in DOMAIN kwargs /\ c \in allowed_fields THEN kwargs[c] ELSE device[c]]

\* (variant: the SELECT has no filter on the id and takes the first row)
DeviceDAO_update_device_first_row(devs, device_id, kwargs, commit) ==
    IF device_id \notin DOMAIN devs
    THEN [ret |-> FALSE, devices |-> devs, raised |-> FALSE]
    ELSE IF commit
         THEN [ret |-> TRUE, raised |-> FALSE,
               devices |-> [devs EXCEPT ![1] = SetAllowed(@, kwargs)]]
         ELSE [ret |-> FALSE, devices |-> devs, raised |-> TRUE]

DeviceDAO_update_device(devs, device_id, kwargs, commit) ==
    IF device_id \notin DOMAIN devs
    THEN [ret |-> FALSE, devices |-> devs, raised |-> FALSE]
    ELSE IF commit
         THEN [ret |-> TRUE, raised |-> FALSE,
               devices |-> [devs EXCEPT ![device_id] = SetAllowed(@, kwargs)]]
         ELSE [ret |-> FALSE, devices |-> devs, raised |-> TRUE]

\* (variant: the location is assigned whether or not one is given)
DeviceDAO_update_device_status_sets_location(devs, device_id, new_status, location, commit) ==
    IF device_id \notin DOMAIN devs
    THEN [ret |-> FALSE, devices |-> devs, raised |-> FALSE]
    ELSE IF commit
         THEN [ret |-> TRUE, raised |-> FALSE,
               devices |-> [devs EXCEPT ![device_id].status = new_status,
                                        ![device_id].location = location]]
         ELSE [ret |-> FALSE, devices |-> devs, raised |-> TRUE]

\* (variant: a commit that raises is not rolled back and leaves the
\* status of the row unset)
DeviceDAO_update_device_status_no_rollback(devs, device_id, new_status, location, commit) ==
    IF device_id \notin DOMAIN devs
    THEN [ret |-> FALSE, devices |-> devs, raised |-> FALSE]
    ELSE IF commit
         THEN [ret |-> TRUE, raised |-> FALSE,
               devices |-> [devs EXCEPT ![device_id].status = new_status,
                                        ![device_id].location =
                                            IF Truthy(location) THEN location ELSE @]]
         ELSE [ret |-> FALSE, raised |-> TRUE,
               devices |-> [devs EXCEPT ![device_id].status = None]]

DeviceDAO_update_device_status(devs, device_id, new_status, location, commit) ==
    IF device_id \notin DOMAIN devs
    THEN [ret |-> FALSE, devices |-> devs, raised |-> FALSE]
    ELSE IF commit
         THEN [ret |-> TRUE, raised |-> FALSE,
               devices |-> [devs EXCEPT ![device_id].status = new_status,
                                        ![device_id].location =
                                            IF Truthy(location) THEN location ELSE @]]
         ELSE [ret |-> FALSE, devices |-> devs, raised |-> TRUE]

\* (variant: the row is deleted)
DeviceDAO_delete_device_erases(devs, device_id, commit) ==
    IF device_id \notin DOMAIN devs
    THEN [ret |-> FALSE, devices |-> devs, raised |-> FALSE]
    ELSE IF commit
         THEN [ret |-> TRUE, raised |-> FALSE,
               devices |-> SubSeq(devs, 1, device_id - 1) \o SubSeq(devs, device_id + 1, Len(devs))]
         ELSE [ret |-> FALSE, devices |-> devs, raised |-> TRUE]

DeviceDAO_delete_device(devs, device_id, commit) ==
    IF device_id \notin DOMAIN devs
    THEN [ret |-> FALSE, devices |-> devs, raised |-> FALSE]
    ELSE IF commit
         THEN [ret |-> TRUE, raised |-> FALSE, devices |-> [devs EXCEPT ![device_id].status = RETIRED]]
         ELSE [ret |-> FALSE, devices |-> devs, raised |-> TRUE]

deploy_allowed_statuses == {IN_STOCK, RESERVED, MAINTENANCE}

\* (variant: every status but deployed is an allowed source status)
DeviceDAO_deploy_device_from_retired(devs, device_id, deployment_location, now, commit) ==
    IF device_id \notin DOMAIN devs
    THEN [ret |-> FALSE, devices |-> devs, raised |-> FALSE]
    ELSE IF devs[device_id].status = DEPLOYED
    THEN [ret |-> FALSE, devices |-> devs, raised |-> FALSE]
    ELSE IF commit
         THEN [ret |-> TRUE, raised |-> FALSE,
               devices |-> [devs EXCEPT ![device_id].status = DEPLOYED,
                                        ![device_id].location = deployment_location,
                                        ![device_id].deploy_date = now]]
         ELSE [ret |-> FALSE, devices |-> devs, raised |-> TRUE]

\* (variant: maintenance is missing from the allowed source statuses)
DeviceDAO_deploy_device_no_maintenance(devs, device_id, deployment_location, now, commit) ==
    IF device_id \notin DOMAIN devs
    THEN [ret |-> FALSE, devices |-> devs, raised |-> FALSE]
    ELSE IF devs[device_id].status \notin {IN_STOCK, RESERVED}
    THEN [ret |-> FALSE, devices |-> devs, raised |-> FALSE]
    ELSE IF commit
         THEN [ret |-> TRUE, raised |-> FALSE,
               devices |-> [devs EXCEPT ![device_id].status = DEPLOYED,
                                        ![device_id].location = deployment_location,
                                        ![device_id].deploy_date = now]]
         ELSE [ret |-> FALSE, devices |-> devs, raised |-> TRUE]

DeviceDAO_deploy_device(devs, device_id, deployment_location, now, commit) ==
    IF device_id \notin DOMAIN devs
    THEN [ret |-> FALSE, devices |-> devs, raised |-> FALSE]
    ELSE IF devs[device_id].status \notin deploy_allowed_statuses
    THEN [ret |-> FALSE, devices |-> devs, raised |-> FALSE]
    ELSE IF commit
         THEN [ret |-> TRUE, raised |-> FALSE,
               devices |-> [devs EXCEPT ![device_id].status = DEPLOYED,
                                        ![device_id].location = deployment_location,
                                        ![device_id].deploy_date = now]]
         ELSE [ret |-> FALSE, devices |-> devs, raised |-> TRUE]

\* (variant: deploy_date is not cleared)
DeviceDAO_recall_device_keeps_date(devs, device_id, warehouse_location, commit) ==
    IF device_id \notin DOMAIN devs
    THEN [ret |-> FALSE, devices |-> devs, raised |-> FALSE]
    ELSE IF devs[device_id].status # DEPLOYED
    THEN [ret |-> FALSE, devices |-> devs, raised |-> FALSE]
    ELSE IF commit
         THEN [ret |-> TRUE, raised |-> FALSE,
               devices |-> [devs EXCEPT ![device_id].status = IN_STOCK,
                                        ![device_id].location =
                                            IF Truthy(warehouse_location)
                                            THEN warehouse_location ELSE @]]
         ELSE [ret |-> FALSE, devices |-> devs, raised |-> TRUE]

\* (variant: the warehouse location is assigned even when none is given)
DeviceDAO_recall_device_always_relocates(devs, device_id, warehouse_location, commit) ==
    IF device_id \notin DOMAIN devs
    THEN [ret |-> FALSE, devices |-> devs, raised |-> FALSE]
    ELSE IF devs[device_id].status # DEPLOYED
    THEN [ret |-> FALSE, devices |-> devs, raised |-> FALSE]
    ELSE IF commit
         THEN [ret |-> TRUE, raised |-> FALSE,
               devices |-> [devs EXCEPT ![device_id].status = IN_STOCK,
                                        ![device_id].location = warehouse_location,
                                        ![device_id].deploy_date = NoDate]]
         ELSE [ret |-> FALSE, devices |-> devs, raised |-> TRUE]

DeviceDAO_recall_device(devs, device_id, warehouse_location, commit) ==
    IF device_id \notin DOMAIN devs
    THEN [ret |-> FALSE, devices |-> devs, raised |-> FALSE]
    ELSE IF devs[device_id].status # DEPLOYED
    THEN [ret |-> FALSE, devices |-> devs, raised |-> FALSE]
    ELSE IF commit
         THEN [ret |-> TRUE, raised |-> FALSE,
               devices |-> [devs EXCEPT ![device_id].status = IN_STOCK,
                                        ![device_id].location =
                                            IF Truthy(warehouse_location)
                                            THEN warehouse_location ELSE @,
                                        ![device_id].deploy_date = NoDate]]
         ELSE [ret |-> FALSE, devices |-> devs, raised |-> TRUE]

\* (variant: a retired device is refused)
DeviceDAO_send_to_maintenance_not_retired(devs, device_id, now, commit) ==
    IF device_id \notin DOMAIN devs
    THEN [ret |-> FALSE, devices |-> devs, raised |-> FALSE]
    ELSE IF devs[device_id].status = RETIRED
    THEN [ret |-> FALSE, devices |-> devs, raised |-> FALSE]
    ELSE IF commit
         THEN [ret |-> TRUE, raised |-> FALSE,
               devices |-> [devs EXCEPT ![device_id].status = MAINTENANCE,
                                        ![device_id].last_maintenance_date = now]]
         ELSE [ret |-> FALSE, devices |-> devs, raised |-> TRUE]

DeviceDAO_send_to_maintenance(devs, device_id, now, commit) ==
    IF device_id \notin DOMAIN devs
    THEN [ret |-> FALSE, devices |-> devs, raised |-> FALSE]
    ELSE IF commit
         THEN [ret |-> TRUE, raised |-> FALSE,
               devices |-> [devs EXCEPT ![device_id].status = MAINTENANCE,
                                        ![device_id].last_maintenance_date = now]]
         ELSE [ret |-> FALSE, devices |-> devs, raised |-> TRUE]

\* (variant: the check of the current status is missing)
DeviceDAO_reserve_device_unchecked(devs, device_id, commit) ==
    IF device_id \notin DOMAIN devs
    THEN [ret |-> FALSE, devices |-> devs, raised |-> FALSE]
    ELSE IF commit
         THEN [ret |-> TRUE, raised |-> FALSE, devices |-> [devs EXCEPT ![device_id].status = RESERVED]]
         ELSE [ret |-> FALSE, devices |-> devs, raised |-> TRUE]

DeviceDAO_reserve_device(devs, device_id, commit) ==
    IF device_id \notin DOMAIN devs
    THEN [ret |-> FALSE, devices |-> devs, raised |-> FALSE]
    ELSE IF devs[device_id].status # IN_STOCK
    THEN [ret |-> FALSE, devices |-> devs, raised |-> FALSE]
    ELSE IF commit
         THEN [ret |-> TRUE, raised |-> FALSE, devices |-> [devs EXCEPT ![device_id].status = RESERVED]]
         ELSE [ret |-> FALSE, devices |-> devs, raised |-> TRUE]

\* log_action: the entry is appended when its own commit goes through.
\* (variant: the entry of a device replaces the entries written before)
DeviceDAO_log_action_replaces(log, device_id, action, old_status, new_status, notes, commit) ==
    IF commit
    THEN << DeviceLog(device_id, action, old_status, new_status, notes) >>
    ELSE log

DeviceDAO_log_action(log, device_id, action, old_status, new_status, notes, commit) ==
    IF commit
    THEN Append(log, DeviceLog(device_id, action, old_status, new_status, notes))
    ELSE log

\* RabbitMQPublisher.publish_device_event: the event reaches the bus when
\* the publish succeeds; the boolean it returns is the success.
publish_device_event(pub, device_id, device_name, event_type, details, delivered) ==
    IF delivered
    THEN Append(pub, [device_id |-> device_id, device_name |-> device_name,
                      event_type |-> event_type, details |-> details])
    ELSE pub

\* RabbitMQPublisher.publish_telemetry: as publish_device_event, for the
\* telemetry topic.
publish_telemetry(pub, device_id, device_name, data, delivered) ==
    IF delivered
    THEN Append(pub, [device_id |-> device_id, device_name |-> device_name,
                      event_type |-> "telemetry", details |-> data])
    ELSE pub

\* ---------------------------------------------------------------------
\* Outcome of a request, kept for the properties
\* ---------------------------------------------------------------------
\* op/id/arg: the request; pre: the row it addressed as it was stored when
\* the request arrived; result: the HTTP status; committed / raised: the
\* DAO's commit went through / raised; log_raised: the commit of log_action
\* raised; log_before: rows of DeviceLog when the request arrived.
Outcome(op, device_id, pre, arg, result, r, log_raised) ==
    [op |-> op, id |-> device_id, found |-> pre # NoDevice, pre |-> pre,
     arg |-> arg, result |-> result, committed |-> r.ret, raised |-> r.raised,
     log_raised |-> log_raised, log_before |-> Len(device_log)]

NoCall == [ret |-> FALSE, raised |-> FALSE]

Arg(location, status, serial_number, notes) ==
    [location |-> location, status |-> status, serial_number |-> serial_number,
     notes |-> notes]

NoArg == Arg(None, None, None, None)

\* Bodies of PUT /devices/{device_id}; status is a field the body may name
\* besides the four the handler reads (None: not named).
UpdateRequests ==
    { [name |-> "n2", description |-> None, location |-> None, specifications |-> None,
       status |-> None],
      [name |-> "n1", description |-> "d1", location |-> "L2", specifications |-> "s1",
       status |-> RETIRED] }

Init ==
    /\ devices = << >>
    /\ device_log = << >>
    /\ published = << >>
    /\ last = [Outcome("none", 0, NoDevice, NoArg, HTTP_OK, NoCall, FALSE)
                 EXCEPT !.log_before = 0]
    /\ nops = 0
    /\ wk = [w \in Workers |-> [pc |-> "idle", device |-> NoDevice, existing |-> FALSE]]
    /\ responses = << >>

\* ---------------------------------------------------------------------
\* device_controller.py: one handler per step
\* ---------------------------------------------------------------------
Respond(op, device_id, pre, arg, result, r, log_raised) ==
    /\ last' = Outcome(op, device_id, pre, arg, result, r, log_raised)
    /\ nops' = nops + 1
    /\ UNCHANGED <<wk, responses>>

\* (variant: the entity is built as already deployed)
create_device_deployed(name, type, serial_number, commit) ==
    /\ nops < MaxOps
    /\ LET device == [Device(name, type, serial_number, None, None, None)
                         EXCEPT !.status = DEPLOYED, !.deploy_date = utcnow]
           same == get_device_by_serial(devices, serial_number)
           r == DeviceDAO_create_device(devices, device, commit)
       IN /\ devices' = r.devices
          /\ UNCHANGED <<device_log, published>>
          /\ Respond("create", IF r.ret THEN Len(r.devices) ELSE 0,
                     IF same = {} THEN NoDevice ELSE devices[CHOOSE i \in same : TRUE],
                     Arg(None, None, serial_number, None),
                     IF r.ret THEN HTTP_CREATED ELSE HTTP_BAD_REQUEST, r, FALSE)

\* POST /devices/
create_device(name, type, serial_number, commit) ==
    /\ nops < MaxOps
    /\ LET device == Device(name, type, serial_number, None, None, None)
           same == get_device_by_serial(devices, serial_number)
           r == DeviceDAO_create_device(devices, device, commit)
       IN /\ devices' = r.devices
          /\ UNCHANGED <<device_log, published>>
          /\ Respond("create", IF r.ret THEN Len(r.devices) ELSE 0,
                     IF same = {} THEN NoDevice ELSE devices[CHOOSE i \in same : TRUE],
                     Arg(None, None, serial_number, None),
                     IF r.ret THEN HTTP_CREATED ELSE HTTP_BAD_REQUEST, r, FALSE)

\* PUT /devices/{device_id}
update_device(device_id, req, commit) ==
    /\ nops < MaxOps
    /\ LET kwargs == [name |-> req.name, description |-> req.description,
                      location |-> req.location, specifications |-> req.specifications]
           r == DeviceDAO_update_device(devices, device_id, kwargs, commit)
       IN /\ devices' = r.devices
          /\ UNCHANGED <<device_log, published>>
          /\ Respond("update", device_id, get_device_by_id(devices, device_id),
                     Arg(req.location, req.status, None, None),
                     IF r.ret THEN HTTP_OK ELSE HTTP_NOT_FOUND, r, FALSE)

\* (variant: the DAO's result is not looked at)
delete_device_always_ok(device_id, commit) ==
    /\ nops < MaxOps
    /\ LET r == DeviceDAO_delete_device(devices, device_id, commit)
       IN /\ devices' = r.devices
          /\ UNCHANGED <<device_log, published>>
          /\ Respond("retire", device_id, get_device_by_id(devices, device_id),
                     NoArg, HTTP_OK, r, FALSE)

\* DELETE /devices/{device_id}
delete_device(device_id, commit) ==
    /\ nops < MaxOps
    /\ LET r == DeviceDAO_delete_device(devices, device_id, commit)
       IN /\ devices' = r.devices
          /\ UNCHANGED <<device_log, published>>
          /\ Respond("retire", device_id, get_device_by_id(devices, device_id),
                     NoArg, IF r.ret THEN HTTP_OK ELSE HTTP_NOT_FOUND, r, FALSE)

\* (variant: log_action is called before the DAO's result is looked at)
StatusEndpoint_logs_first(op, device_id, arg, r, action, new_status, logc, notify, delivered) ==
    LET old_device == get_device_by_id(devices, device_id)
        old_status == old_device.status
    IN IF old_device = NoDevice
       THEN /\ UNCHANGED <<devices, device_log, published>>
            /\ Respond(op, device_id, old_device, arg, HTTP_NOT_FOUND, NoCall, FALSE)
       ELSE /\ devices' = r.devices
            /\ device_log' = DeviceDAO_log_action(device_log, device_id, action,
                                                  old_status, new_status, arg.notes, logc)
            /\ published' = IF notify /\ r.ret
                            THEN publish_device_event(published, device_id,
                                     r.devices[device_id].name, "device_reserved",
                                     arg.notes, delivered)
                            ELSE published
            /\ Respond(op, device_id, old_device, arg,
                       IF r.ret THEN HTTP_OK ELSE HTTP_BAD_REQUEST, r, ~logc)

\* (variant: a log entry that cannot be written undoes the status change and
\* is answered 500)
StatusEndpoint_log_failure_undoes(op, device_id, arg, r, action, new_status, logc, notify, delivered) ==
    LET old_device == get_device_by_id(devices, device_id)
        old_status == old_device.status
    IN IF old_device = NoDevice
       THEN /\ UNCHANGED <<devices, device_log, published>>
            /\ Respond(op, device_id, old_device, arg, HTTP_NOT_FOUND, NoCall, FALSE)
       ELSE IF ~r.ret
       THEN /\ devices' = r.devices
            /\ UNCHANGED <<device_log, published>>
            /\ Respond(op, device_id, old_device, arg, HTTP_BAD_REQUEST, r, FALSE)
       ELSE IF ~logc
       THEN /\ UNCHANGED <<devices, device_log, published>>
            /\ Respond(op, device_id, old_device, arg, HTTP_INTERNAL, r, TRUE)
       ELSE /\ devices' = r.devices
            /\ device_log' = DeviceDAO_log_action(device_log, device_id, action,
                                                  old_status, new_status, arg.notes, logc)
            /\ published' = IF notify
                            THEN publish_device_event(published, device_id,
                                     r.devices[device_id].name, "device_reserved",
                                     arg.notes, delivered)
                            ELSE published
            /\ Respond(op, device_id, old_device, arg, HTTP_OK, r, ~logc)

\* The shape shared by the status endpoints: read the device for old_status
\* (404 when absent), call the DAO (400 when it returns nothing), then
\* log_action, then the handler's notification if it has one.
StatusEndpoint(op, device_id, arg, r, action, new_status, logc, notify, delivered) ==
    LET old_device == get_device_by_id(devices, device_id)
        old_status == old_device.status
    IN IF old_device = NoDevice
       THEN /\ UNCHANGED <<devices, device_log, published>>
            /\ Respond(op, device_id, old_device, arg, HTTP_NOT_FOUND, NoCall, FALSE)
       ELSE IF ~r.ret
       THEN /\ devices' = r.devices
            /\ UNCHANGED <<device_log, published>>
            /\ Respond(op, device_id, old_device, arg, HTTP_BAD_REQUEST, r, FALSE)
       ELSE /\ devices' = r.devices
            /\ device_log' = DeviceDAO_log_action(device_log, device_id, action,
                                                  old_status, new_status, arg.notes, logc)
            /\ published' = IF notify
                            THEN publish_device_event(published, device_id,
                                     r.devices[device_id].name, "device_reserved",
                                     arg.notes, delivered)
                            ELSE published
            /\ Respond(op, device_id, old_device, arg, HTTP_OK, r, ~logc)

\* PUT /devices/{device_id}/status
update_device_status(device_id, status, location, notes, f) ==
    /\ nops < MaxOps
    /\ StatusEndpoint("status_change", device_id, Arg(location, status, None, notes),
           DeviceDAO_update_device_status(devices, device_id, status, location, CommitOk(f)),
           "status_change", status, LogOk(f), FALSE, FALSE)

\* PUT /devices/{device_id}/deploy
deploy_device(device_id, location, notes, f) ==
    /\ nops < MaxOps
    /\ StatusEndpoint("deploy", device_id, Arg(location, None, None, notes),
           DeviceDAO_deploy_device(devices, device_id, location, utcnow, CommitOk(f)),
           "deployed", DEPLOYED, LogOk(f), FALSE, FALSE)

\* PUT /devices/{device_id}/recall
recall_device(device_id, location, notes, f) ==
    /\ nops < MaxOps
    /\ StatusEndpoint("recall", device_id, Arg(location, None, None, notes),
           DeviceDAO_recall_device(devices, device_id, location, CommitOk(f)),
           "recalled", IN_STOCK, LogOk(f), FALSE, FALSE)

\* PUT /devices/{device_id}/maintenance
send_to_maintenance(device_id, notes, f) ==
    /\ nops < MaxOps
    /\ StatusEndpoint("maintenance", device_id, Arg(None, None, None, notes),
           DeviceDAO_send_to_maintenance(devices, device_id, utcnow, CommitOk(f)),
           "maintenance", MAINTENANCE, LogOk(f), FALSE, FALSE)

\* PUT /devices/{device_id}/reserve
reserve_device(device_id, notes, f) ==
    /\ nops < MaxOps
    /\ StatusEndpoint("reserve", device_id, Arg(None, None, None, notes),
           DeviceDAO_reserve_device(devices, device_id, CommitOk(f)),
           "reserved", RESERVED, LogOk(f), TRUE, PublishOk(f))

\* (variant: the check of the device's status is missing)
receive_telemetry_ungated(device_id, data, delivered) ==
    /\ nops < MaxOps
    /\ UNCHANGED <<devices, device_log>>
    /\ LET device == get_device_by_id(devices, device_id)
       IN IF device = NoDevice
          THEN /\ UNCHANGED published
               /\ Respond("telemetry", device_id, device, NoArg, HTTP_NOT_FOUND, NoCall, FALSE)
          ELSE /\ published' = publish_telemetry(published, device_id, device.name,
                                                 data, delivered)
               /\ Respond("telemetry", device_id, device, NoArg,
                          IF delivered THEN HTTP_OK ELSE HTTP_INTERNAL, NoCall, FALSE)

\* POST /devices/telemetry
receive_telemetry(device_id, data, delivered) ==
    /\ nops < MaxOps
    /\ UNCHANGED <<devices, device_log>>
    /\ LET device == get_device_by_id(devices, device_id)
       IN IF device = NoDevice
          THEN /\ UNCHANGED published
               /\ Respond("telemetry", device_id, device, NoArg, HTTP_NOT_FOUND, NoCall, FALSE)
          ELSE IF device.status # DEPLOYED
          THEN /\ UNCHANGED published
               /\ Respond("telemetry", device_id, device, NoArg, HTTP_BAD_REQUEST, NoCall, FALSE)
          ELSE /\ published' = publish_telemetry(published, device_id, device.name,
                                                 data, delivered)
               /\ Respond("telemetry", device_id, device, NoArg,
                          IF delivered THEN HTTP_OK ELSE HTTP_INTERNAL, NoCall, FALSE)

\* (variant: the event is also written to the DeviceLog)
receive_event_logged(device_id, event_type, details, delivered) ==
    /\ nops < MaxOps
    /\ UNCHANGED devices
    /\ device_log' = DeviceDAO_log_action(device_log, device_id, event_type,
                                          None, None, details, TRUE)
    /\ published' = publish_device_event(published, device_id,
                                         "Device-" \o ToString(device_id),
                                         event_type, details, delivered)
    /\ Respond("event", device_id, NoDevice, NoArg,
               IF delivered THEN HTTP_OK ELSE HTTP_INTERNAL, NoCall, FALSE)

\* POST /devices/events: the device is not looked up.
receive_event(device_id, event_type, details, delivered) ==
    /\ nops < MaxOps
    /\ UNCHANGED <<devices, device_log>>
    /\ published' = publish_device_event(published, device_id,
                                         "Device-" \o ToString(device_id),
                                         event_type, details, delivered)
    /\ Respond("event", device_id, NoDevice, NoArg,
               IF delivered THEN HTTP_OK ELSE HTTP_INTERNAL, NoCall, FALSE)

Next ==
    \/ \E n \in {"n1"}, t \in CreateTypes, s \in SerialNumbers, c \in BOOLEAN :
          create_device(n, t, s, c)
    \/ \E d \in DeviceIds, q \in UpdateRequests, c \in BOOLEAN : update_device(d, q, c)
    \/ \E d \in DeviceIds, c \in BOOLEAN : delete_device(d, c)
    \/ \E d \in DeviceIds, st \in DeviceStatus, l \in OptLocations, n \in Notes, f \in Faults :
          update_device_status(d, st, l, n, f)
    \/ \E d \in DeviceIds, l \in Locations, n \in Notes, f \in Faults :
          deploy_device(d, l, n, f)
    \/ \E d \in DeviceIds, l \in OptLocations, n \in Notes, f \in Faults :
          recall_device(d, l, n, f)
    \/ \E d \in DeviceIds, n \in Notes, f \in Faults : send_to_maintenance(d, n, f)
    \/ \E d \in DeviceIds, n \in Notes, f \in ReserveFaults : reserve_device(d, n, f)
    \/ \E d \in DeviceIds, t \in TelemetryData, pb \in BOOLEAN : receive_telemetry(d, t, pb)
    \/ \E d \in DeviceIds, t \in EventTypes, pb \in BOOLEAN : receive_event(d, t, None, pb)

Spec == Init /\ [][Next]_vars

\* ---------------------------------------------------------------------
\* Concurrent POST /devices/ : each worker serves its request in its own
\* session; the SELECT of create_device and its commit are two steps, and
\* the other workers' statements may run between them.
\* ---------------------------------------------------------------------
create_begin(w, name, type, serial_number) ==
    /\ wk[w].pc = "idle"
    /\ Len(responses) + Cardinality({v \in Workers : wk[v].pc # "idle"}) < MaxCreates
    /\ LET device == Device(name, type, serial_number, None, None, None)
       IN wk' = [wk EXCEPT ![w] = [pc |-> "checked", device |-> device,
                                   existing |-> create_device_existing(devices, device)]]
    /\ UNCHANGED <<devices, device_log, published, last, nops, responses>>

create_finish(w, commit) ==
    /\ wk[w].pc = "checked"
    /\ LET r == IF wk[w].existing
                THEN [ret |-> FALSE, devices |-> devices, raised |-> FALSE]
                ELSE create_device_commit(devices, wk[w].device, commit)
       IN /\ devices' = r.devices
          /\ responses' = Append(responses,
                 [worker |-> w, serial_number |-> wk[w].device.serial_number,
                  existing |-> wk[w].existing, raised |-> ~wk[w].existing /\ ~commit,
                  id |-> IF r.ret THEN Len(r.devices) ELSE 0,
                  result |-> IF r.ret THEN HTTP_CREATED ELSE HTTP_BAD_REQUEST])
    /\ wk' = [wk EXCEPT ![w] = [pc |-> "idle", device |-> NoDevice, existing |-> FALSE]]
    /\ UNCHANGED <<device_log, published, last, nops>>

NextC ==
    \/ \E w \in Workers, n \in {"n1"}, t \in CreateTypes, s \in SerialNumbers :
          create_begin(w, n, t, s)
    \/ \E w \in Workers, c \in BOOLEAN : create_finish(w, c)

SpecC == Init /\ [][NextC]_vars

TypeOK ==
    /\ \A i \in DOMAIN devices : devices[i].status \in DeviceStatus
    /\ nops \in 0..MaxOps

\* ---------------------------------------------------------------------
\* Status endpoints statement by statement: several workers, each in its
\* own session, serve reserve and deploy requests.  A request is
\*   begin   the controller's get_device_by_id (old_status, or 404),
\*   query   the DAO's SELECT and its status check (400 when refused),
\*   commit  session.commit() of the assigned columns (400 when it raises),
\*   log     DeviceDAO.log_action,
\*   publish the notification of reserve,
\* and the process may die between any two of them (crash).
\* ---------------------------------------------------------------------
\* The action name an endpoint hands to log_action.
ActionOf(op) ==
    IF op = "reserve" THEN "reserved"
    ELSE IF op = "deploy" THEN "deployed"
    ELSE IF op = "recall" THEN "recalled"
    ELSE op

\* The two processes that serve requests side by side.
StepWorkers == {1, 2}

StepOps == {"reserve", "deploy"}

Idle ==
    [pc |-> "idle", op |-> "none", id |-> 0, arg |-> NoArg, old_status |-> None,
     seen |-> NoDevice, pending |-> NoDevice, committed |-> FALSE, now |-> 0]

InitL ==
    /\ devices = << Device("n1", "sensor", "SN-1", None, None, None) >>
    /\ device_log = << >>
    /\ published = << >>
    /\ last = [Outcome("none", 0, NoDevice, NoArg, HTTP_OK, NoCall, FALSE)
                 EXCEPT !.log_before = 0]
    /\ nops = 0
    /\ wk = [w \in StepWorkers |-> Idle]
    /\ responses = << >>

\* The DAO method behind an endpoint.
DaoCall(op, devs, device_id, arg, now, commit) ==
    IF op = "reserve" THEN DeviceDAO_reserve_device(devs, device_id, commit)
    ELSE DeviceDAO_deploy_device(devs, device_id, arg.location, now, commit)

\* The UPDATE a commit flushes carries the columns the DAO assigned a new
\* value to; the other columns of the row stay as they are stored.
Flush(stored, seen, pending) ==
    [c \in DOMAIN stored |-> IF pending[c] # seen[c] THEN pending[c] ELSE stored[c]]

Answer(w, result) ==
    /\ responses' = Append(responses,
          [worker |-> w, op |-> wk[w].op, id |-> wk[w].id, result |-> result,
           committed |-> wk[w].committed])
    /\ wk' = [wk EXCEPT ![w] = Idle]

step_begin(w, op, device_id, arg) ==
    /\ wk[w].pc = "idle"
    /\ nops < MaxRequests
    /\ nops' = nops + 1
    /\ UNCHANGED <<devices, device_log, published, last>>
    /\ LET old_device == get_device_by_id(devices, device_id)
       IN IF old_device = NoDevice
          THEN /\ responses' = Append(responses,
                     [worker |-> w, op |-> op, id |-> device_id,
                      result |-> HTTP_NOT_FOUND, committed |-> FALSE])
               /\ UNCHANGED wk
          ELSE /\ wk' = [wk EXCEPT ![w] = [Idle EXCEPT !.pc = "read", !.op = op,
                                              !.id = device_id, !.arg = arg,
                                              !.old_status = old_device.status,
                                              !.now = utcnow]]
               /\ UNCHANGED responses

step_query(w) ==
    /\ wk[w].pc = "read"
    /\ UNCHANGED <<devices, device_log, published, last, nops>>
    /\ LET r == DaoCall(wk[w].op, devices, wk[w].id, wk[w].arg, wk[w].now, TRUE)
       IN IF r.ret
          THEN /\ wk' = [wk EXCEPT ![w].pc = "queried",
                                   ![w].seen = devices[wk[w].id],
                                   ![w].pending = r.devices[wk[w].id]]
               /\ UNCHANGED responses
          ELSE Answer(w, HTTP_BAD_REQUEST)

\* (variant: the UPDATE is conditional on the row being as it was read)
step_commit_versioned(w, commit) ==
    /\ wk[w].pc = "queried"
    /\ UNCHANGED <<device_log, published, last, nops>>
    /\ IF commit /\ devices[wk[w].id] = wk[w].seen
       THEN /\ devices' = [devices EXCEPT ![wk[w].id] =
                              Flush(@, wk[w].seen, wk[w].pending)]
            /\ wk' = [wk EXCEPT ![w].pc = "committed", ![w].committed = TRUE]
            /\ UNCHANGED responses
       ELSE /\ UNCHANGED devices
            /\ Answer(w, HTTP_BAD_REQUEST)

step_commit(w, commit) ==
    /\ wk[w].pc = "queried"
    /\ UNCHANGED <<device_log, published, last, nops>>
    /\ IF commit
       THEN /\ devices' = [devices EXCEPT ![wk[w].id] =
                              Flush(@, wk[w].seen, wk[w].pending)]
            /\ wk' = [wk EXCEPT ![w].pc = "committed", ![w].committed = TRUE]
            /\ UNCHANGED responses
       ELSE /\ UNCHANGED devices
            /\ Answer(w, HTTP_BAD_REQUEST)

step_log(w, logc) ==
    /\ wk[w].pc = "committed"
    /\ UNCHANGED <<devices, published, last, nops>>
    /\ device_log' = DeviceDAO_log_action(device_log, wk[w].id, ActionOf(wk[w].op),
                                          wk[w].old_status, wk[w].pending.status,
                                          wk[w].arg.notes, logc)
    /\ IF wk[w].op = "reserve"
       THEN /\ wk' = [wk EXCEPT ![w].pc = "logged"]
            /\ UNCHANGED responses
       ELSE Answer(w, HTTP_OK)

\* (variant: a failed publish puts the old status back)
step_publish_compensates(w, delivered) ==
    /\ wk[w].pc = "logged"
    /\ UNCHANGED <<device_log, last, nops>>
    /\ devices' = IF delivered THEN devices
                  ELSE [devices EXCEPT ![wk[w].id].status = wk[w].old_status]
    /\ published' = publish_device_event(published, wk[w].id, devices[wk[w].id].name,
                                         "device_reserved", wk[w].arg.notes, delivered)
    /\ Answer(w, HTTP_OK)

step_publish(w, delivered) ==
    /\ wk[w].pc = "logged"
    /\ UNCHANGED <<devices, device_log, last, nops>>
    /\ published' = publish_device_event(published, wk[w].id, devices[wk[w].id].name,
                                         "device_reserved", wk[w].arg.notes, delivered)
    /\ Answer(w, HTTP_OK)

\* The serving process dies: the request gets no answer, nothing it has
\* committed is taken back, nothing it had not yet done is done.
crash(w) ==
    /\ wk[w].pc # "idle"
    /\ UNCHANGED <<devices, device_log, published, last, nops>>
    /\ Answer(w, 0)

NextL ==
    \/ \E w \in StepWorkers, op \in StepOps, d \in DeviceIds, l \in {"L1"}, n \in Notes :
          step_begin(w, op, d, Arg(IF op = "deploy" THEN l ELSE None, None, None, n))
    \/ \E w \in StepWorkers : step_query(w)
    \/ \E w \in StepWorkers, c \in BOOLEAN : step_commit(w, c)
    \/ \E w \in StepWorkers, lc \in BOOLEAN : step_log(w, lc)
    \/ \E w \in StepWorkers, pb \in BOOLEAN : step_publish(w, pb)
    \/ \E w \in StepWorkers : crash(w)

SpecL == InitL /\ [][NextL]_vars

\* ---------------------------------------------------------------------
\* Telemetry beside the operations that leave deployed
\* ---------------------------------------------------------------------
\* receive_telemetry in two steps, the read with its checks and the
\* publish, with recall, send_to_maintenance, retire and the direct status
\* set served by the other process in between.
InitT ==
    /\ devices = << [Device("n1", "sensor", "SN-1", None, "L1", None)
                       EXCEPT !.status = DEPLOYED, !.deploy_date = 1] >>
    /\ device_log = << >>
    /\ published = << >>
    /\ last = [Outcome("none", 0, NoDevice, NoArg, HTTP_OK, NoCall, FALSE)
                 EXCEPT !.log_before = 0]
    /\ nops = 0
    /\ wk = [w \in StepWorkers |-> Idle]
    /\ responses = << >>

telemetry_check(w, device_id) ==
    /\ wk[w].pc = "idle"
    /\ nops < MaxOps
    /\ nops' = nops + 1
    /\ UNCHANGED <<devices, device_log, published, last>>
    /\ LET device == get_device_by_id(devices, device_id)
       IN IF device = NoDevice \/ device.status # DEPLOYED
          THEN /\ responses' = Append(responses,
                     [worker |-> w, op |-> "telemetry", id |-> device_id,
                      result |-> IF device = NoDevice THEN HTTP_NOT_FOUND
                                 ELSE HTTP_BAD_REQUEST,
                      committed |-> FALSE])
               /\ UNCHANGED wk
          ELSE /\ wk' = [wk EXCEPT ![w] = [Idle EXCEPT !.pc = "checked",
                                              !.op = "telemetry",
                                              !.id = device_id,
                                              !.seen = device]]
               /\ UNCHANGED responses

telemetry_publish(w, data, delivered) ==
    /\ wk[w].pc = "checked"
    /\ UNCHANGED <<devices, device_log, last, nops>>
    /\ published' = publish_telemetry(published, wk[w].id, wk[w].seen.name,
                                      data, delivered)
    /\ Answer(w, IF delivered THEN HTTP_OK ELSE HTTP_INTERNAL)

NextT ==
    \/ \E w \in StepWorkers, d \in DeviceIds : telemetry_check(w, d)
    \/ \E w \in StepWorkers, t \in TelemetryData, pb \in BOOLEAN :
          telemetry_publish(w, t, pb)
    \/ \E d \in DeviceIds, l \in OptLocations, n \in Notes, f \in Faults :
          recall_device(d, l, n, f)
    \/ \E d \in DeviceIds, n \in Notes, f \in Faults : send_to_maintenance(d, n, f)
    \/ \E d \in DeviceIds, c \in BOOLEAN : delete_device(d, c)
    \/ \E d \in DeviceIds, st \in DeviceStatus, l \in OptLocations, n \in Notes, f \in Faults :
          update_device_status(d, st, l, n, f)

SpecT == InitT /\ [][NextT]_vars

\* ---------------------------------------------------------------------
\* GET /devices/ : listings of a stored table.  The table is any table the
\* service can have built (a row per create, sensors and gateways, in stock
\* or deployed); the requests list it and do not change it.
\* ---------------------------------------------------------------------
StoredRow(i, type, status) ==
    IF status = DEPLOYED
    THEN [Device("n1", type, SerialOf(i), None, None, None)
            EXCEPT !.status = DEPLOYED, !.location = "L1", !.deploy_date = i]
    ELSE Device("n1", type, SerialOf(i), None, None, None)

Tables ==
    UNION { { [i \in 1..n |-> StoredRow(i, ty[i], st[i])] :
                ty \in [1..n -> {"sensor", "gateway"}],
                st \in [1..n -> {IN_STOCK, DEPLOYED}] } : n \in 0..MaxRows }

InitP ==
    /\ devices \in Tables
    /\ device_log = << >>
    /\ published = << >>
    /\ last = [Outcome("none", 0, NoDevice, NoArg, HTTP_OK, NoCall, FALSE)
                 EXCEPT !.log_before = 0]
    /\ nops = 0
    /\ wk = [w \in Workers |-> Idle]
    /\ responses = << >>

\* The rows the filters of get_all_devices keep.
Matching(devs, status, device_type) ==
    {i \in DOMAIN devs : /\ status # None => devs[i].status = status
                         /\ device_type # None => devs[i].type = device_type}

\* The query has no ORDER BY: the store hands the rows of a statement back
\* in an order of its choosing.
RowOrders(rows) ==
    {o \in [1..Cardinality(rows) -> rows] :
        \A i, j \in 1..Cardinality(rows) : i # j => o[i] # o[j]}

Min(a, b) == IF a < b THEN a ELSE b

\* get_all_devices: total = count of the filtered rows, the window is
\* OFFSET (page - 1) * page_size LIMIT page_size of the rows as returned.
DeviceDAO_get_all_devices(devs, status, device_type, page, page_size, order) ==
    LET total == Cardinality(Matching(devs, status, device_type))
        offset == (page - 1) * page_size
    IN [devices |-> SubSeq(order, offset + 1, Min(offset + page_size, total)),
        total |-> total]

\* GET /devices/
get_all_devices(status, device_type, page, page_size, order) ==
    /\ Len(responses) < MaxListings
    /\ LET r == DeviceDAO_get_all_devices(devices, status, device_type, page,
                                          page_size, order)
       IN responses' = Append(responses,
             [status |-> status, device_type |-> device_type, page |-> page,
              page_size |-> page_size, devices |-> r.devices, total |-> r.total])
    /\ UNCHANGED <<devices, device_log, published, last, nops, wk>>

NextP ==
    \E st \in {None, IN_STOCK}, ty \in {None, "sensor"},
       p \in 1..MaxPage, ps \in 1..MaxPageSize :
       \E o \in RowOrders(Matching(devices, st, ty)) :
          get_all_devices(st, ty, p, ps, o)

SpecP == InitP /\ [][NextP]_vars

\* =====================================================================
\* Properties
\* =====================================================================
\* A step of Spec in which the handler op served a request.
Handled(op) == nops' = nops + 1 /\ last'.op = op

\* The same for a request that addressed a stored device.
HandledOn(op) == Handled(op) /\ last'.id \in DOMAIN devices

SerialCount(devs, serial_number) == Cardinality(get_device_by_serial(devs, serial_number))

\* C1: a create whose serial number is the serial number of a stored device
\* is answered 400 (duplicate serial) and leaves the Device table as it was;
\* still exactly one device has that serial number.
C1_DuplicateCreateRejected ==
    [][ (Handled("create") /\ SerialCount(devices, last'.arg.serial_number) > 0)
        => /\ last'.result = HTTP_BAD_REQUEST
           /\ devices' = devices
           /\ SerialCount(devices', last'.arg.serial_number) = 1 ]_vars

C1_Witness ==
    /\ last.op = "create"
    /\ last.found
    /\ last.result = HTTP_BAD_REQUEST
    /\ SerialCount(devices, last.arg.serial_number) = 1

\* C2: whatever the interleaving of concurrent creates, no serial number is
\* stored twice and at most one create per serial number is answered 201.
Created(serial_number) ==
    {i \in DOMAIN responses : /\ responses[i].serial_number = serial_number
                              /\ responses[i].result = HTTP_CREATED}

C2_ConcurrentCreateUnique ==
    \A sn \in SerialNumbers :
        /\ SerialCount(devices, sn) <= 1
        /\ Cardinality(Created(sn)) <= 1
        /\ Cardinality(Created(sn)) = SerialCount(devices, sn)

\* Two creates with one serial both found no stored row in their SELECT;
\* one was answered 201, the other's commit was refused.
C2_Witness ==
    \E i, j \in DOMAIN responses :
        /\ i < j
        /\ responses[i].serial_number = responses[j].serial_number
        /\ responses[i].worker # responses[j].worker
        /\ responses[i].result = HTTP_CREATED
        /\ ~responses[j].existing
        /\ responses[j].result = HTTP_BAD_REQUEST
        /\ \A k \in DOMAIN responses : ~responses[k].raised \/ k = j

\* C3: reserve is answered 200 only for a device stored as in_stock, and then
\* only its status changes, to reserved; for a device in any other status it
\* is answered 400 and the Device table is as it was.
C3_Reserve ==
    [][ HandledOn("reserve")
        => LET d == last'.id IN
           /\ last'.result = HTTP_OK => devices[d].status = IN_STOCK
           /\ last'.result = HTTP_OK => devices' = [devices EXCEPT ![d].status = RESERVED]
           /\ devices[d].status # IN_STOCK
                => last'.result = HTTP_BAD_REQUEST /\ devices' = devices
           /\ last'.result # HTTP_OK => devices' = devices ]_vars

\* A reserve went through (its log entry is the newest one) and the next
\* request, a reserve of the same device, was refused.
C3_Witness ==
    /\ last.op = "reserve"
    /\ last.pre.status = RESERVED
    /\ last.result = HTTP_BAD_REQUEST
    /\ devices[last.id] = last.pre
    /\ Len(device_log) > 0
    /\ device_log[Len(device_log)] =
           DeviceLog(last.id, "reserved", IN_STOCK, RESERVED, last.arg.notes)

\* C4: deploy is answered 200 exactly for a device stored as in_stock,
\* reserved or maintenance (provided the commit does not raise); then the
\* status is deployed, the location the one of the request and deploy_date
\* is set; for a deployed or retired device it is answered 400 and the
\* device is as it was.
C4_Deploy ==
    [][ HandledOn("deploy")
        => LET d == last'.id IN
           /\ last'.result = HTTP_OK => devices[d].status \in {IN_STOCK, RESERVED, MAINTENANCE}
           /\ (devices[d].status \in {IN_STOCK, RESERVED, MAINTENANCE} /\ ~last'.raised)
                => last'.result = HTTP_OK
           /\ last'.result = HTTP_OK
                => /\ devices'[d].status = DEPLOYED
                   /\ devices'[d].location = last'.arg.location
                   /\ devices'[d].deploy_date # NoDate
                   /\ devices' = [devices EXCEPT ![d].status = DEPLOYED,
                                                 ![d].location = last'.arg.location,
                                                 ![d].deploy_date = nops']
           /\ devices[d].status \in {DEPLOYED, RETIRED}
                => last'.result = HTTP_BAD_REQUEST /\ devices' = devices
           /\ last'.result # HTTP_OK => devices' = devices ]_vars

\* A device out of maintenance was deployed to another location.
C4_Witness ==
    /\ last.op = "deploy"
    /\ last.result = HTTP_OK
    /\ last.pre.status = MAINTENANCE
    /\ devices[last.id].status = DEPLOYED
    /\ devices[last.id].location = last.arg.location
    /\ last.pre.location # last.arg.location
    /\ devices[last.id].deploy_date = nops

\* C5: recall is answered 200 exactly for a device stored as deployed
\* (provided the commit does not raise); then the status is in_stock,
\* deploy_date is unset and the location is the one of the request if it
\* carries one and the stored one otherwise; for any other status it is
\* answered 400 and the device is as it was.
C5_Recall ==
    [][ HandledOn("recall")
        => LET d == last'.id
               l == last'.arg.location IN
           /\ last'.result = HTTP_OK => devices[d].status = DEPLOYED
           /\ (devices[d].status = DEPLOYED /\ ~last'.raised) => last'.result = HTTP_OK
           /\ last'.result = HTTP_OK
                => devices' = [devices EXCEPT
                                 ![d].status = IN_STOCK,
                                 ![d].deploy_date = NoDate,
                                 ![d].location = IF l \in {None, ""} THEN @ ELSE l]
           /\ devices[d].status # DEPLOYED
                => last'.result = HTTP_BAD_REQUEST /\ devices' = devices
           /\ last'.result # HTTP_OK => devices' = devices ]_vars

\* A deployed device was recalled by a request without a location and is
\* in stock where it was deployed.
C5_Witness ==
    /\ last.op = "recall"
    /\ last.result = HTTP_OK
    /\ last.arg.location = None
    /\ last.pre.status = DEPLOYED
    /\ last.pre.deploy_date # NoDate
    /\ last.pre.location # None
    /\ devices[last.id].status = IN_STOCK
    /\ devices[last.id].deploy_date = NoDate
    /\ devices[last.id].location = last.pre.location

\* C6 as stated: a retired device stays retired, whatever request is served.
C6_RetiredIsTerminal ==
    [][ \A d \in DOMAIN devices :
          devices[d].status = RETIRED => devices'[d].status = RETIRED ]_vars

\* C6 as amended: reserve, deploy, recall, retire and the update of the
\* descriptive fields leave a retired device retired; a retired device
\* leaves that status only through send_to_maintenance or a direct status
\* set addressed to it.
C6_RetiredLeftOnlyByMaintenanceOrStatusSet ==
    [][ \A d \in DOMAIN devices :
          (devices[d].status = RETIRED /\ devices'[d].status # RETIRED)
            => /\ last'.op \in {"maintenance", "status_change"}
               /\ last'.id = d
               /\ last'.result = HTTP_OK ]_vars

\* A deploy of a retired device was refused and the device is retired.
C6_Witness ==
    /\ last.op = "deploy"
    /\ last.found
    /\ last.pre.status = RETIRED
    /\ last.result = HTTP_BAD_REQUEST
    /\ devices[last.id].status = RETIRED

\* C7: neither send_to_maintenance nor retire looks at the current status:
\* for a stored device, whatever its status, each is answered 200 unless the
\* commit raises; after send_to_maintenance the status is maintenance and
\* last_maintenance_date is set, after retire the status is retired.
C7_NoStatusPrecondition ==
    [][ /\ HandledOn("maintenance")
          => LET d == last'.id IN
             /\ last'.result = HTTP_OK <=> ~last'.raised
             /\ last'.result = HTTP_OK
                  => devices' = [devices EXCEPT ![d].status = MAINTENANCE,
                                                ![d].last_maintenance_date = nops']
             /\ last'.result = HTTP_OK => devices'[d].last_maintenance_date # NoDate
        /\ HandledOn("retire")
          => LET d == last'.id IN
             /\ last'.result = HTTP_OK <=> ~last'.raised
             /\ last'.result # HTTP_BAD_REQUEST
             /\ last'.result = HTTP_OK
                  => devices' = [devices EXCEPT ![d].status = RETIRED] ]_vars

\* A retired device was sent to maintenance.
C7_Witness ==
    /\ last.op = "maintenance"
    /\ last.pre.status = RETIRED
    /\ last.result = HTTP_OK
    /\ devices[last.id].status = MAINTENANCE
    /\ devices[last.id].last_maintenance_date = nops

\* C8: a request that changes a stored device and commits (reserve, deploy,
\* recall, send_to_maintenance, retire, direct status set, update of the
\* descriptive fields) appends a DeviceLog entry for that device, unless
\* the write of the entry itself fails.
MutatingOps ==
    {"reserve", "deploy", "recall", "maintenance", "retire", "status_change", "update"}

C8_EveryMutationAudited ==
    [][ (nops' = nops + 1 /\ last'.op \in MutatingOps /\ last'.committed
         /\ ~last'.log_raised)
        => /\ Len(device_log') = Len(device_log) + 1
           /\ device_log'[Len(device_log')].device_id = last'.id ]_vars

\* C9: a request to an endpoint other than the telemetry and event relays
\* (which mutate nothing) that is not answered 200 writes no DeviceLog entry and
\* publishes nothing; an entry or an event implies that the DAO's commit
\* went through; reserve, deploy, recall, send_to_maintenance and the
\* direct status set, answered 200, append one entry (none if the commit of
\* the entry raises) holding the status stored before and the one stored now.
LoggedOps == {"reserve", "deploy", "recall", "maintenance", "status_change"}

C9_LogOnlyAfterCommit ==
    [][ (nops' = nops + 1 /\ last'.op \notin {"telemetry", "event"})
        => /\ last'.result \notin {HTTP_OK, HTTP_CREATED}
                => device_log' = device_log /\ published' = published /\ devices' = devices
           /\ (device_log' # device_log \/ published' # published) => last'.committed
           /\ (last'.op \in LoggedOps /\ last'.result = HTTP_OK)
                => /\ last'.committed
                   /\ device_log' =
                        IF last'.log_raised THEN device_log
                        ELSE Append(device_log,
                                    DeviceLog(last'.id, ActionOf(last'.op),
                                              devices[last'.id].status,
                                              devices'[last'.id].status,
                                              last'.arg.notes)) ]_vars

\* A reserve was answered 200: one entry more than before, the event is out.
C9_Witness ==
    /\ last.op = "reserve"
    /\ last.result = HTTP_OK
    /\ last.committed
    /\ Len(device_log) = last.log_before + 1
    /\ device_log[Len(device_log)] =
           DeviceLog(last.id, "reserved", IN_STOCK, RESERVED, last.arg.notes)
    /\ devices[last.id].status = RESERVED
    /\ Len(published) > 0
    /\ published[Len(published)].device_id = last.id

\* C10: a deploy of an in_stock device answered 200, directly followed by a
\* recall of that device (no commit raising), leaves the device in_stock
\* with deploy_date unset, and the DeviceLog has exactly two entries more
\* than before the deploy: (deployed, in_stock, deployed) and then
\* (recalled, deployed, in_stock).
C10_DeployRecallRoundTrip ==
    [][ ( /\ last.op = "deploy" /\ last.result = HTTP_OK
          /\ last.pre.status = IN_STOCK /\ ~last.log_raised
          /\ Handled("recall") /\ last'.id = last.id
          /\ ~last'.raised /\ ~last'.log_raised )
        => LET d == last.id
               n == last.log_before IN
           /\ last'.result = HTTP_OK
           /\ devices'[d].status = IN_STOCK
           /\ devices'[d].deploy_date = NoDate
           /\ Len(device_log') = n + 2
           /\ SubSeq(device_log', 1, n) = SubSeq(device_log, 1, n)
           /\ device_log'[n + 1] =
                 DeviceLog(d, "deployed", IN_STOCK, DEPLOYED, last.arg.notes)
           /\ device_log'[n + 2] =
                 DeviceLog(d, "recalled", DEPLOYED, IN_STOCK, last'.arg.notes) ]_vars

\* The recall was served right after the deploy (deploy_date is the number
\* of the request before it) and both entries are the newest two.
C10_Witness ==
    /\ last.op = "recall"
    /\ last.result = HTTP_OK
    /\ last.pre.deploy_date = nops - 1
    /\ devices[last.id].status = IN_STOCK
    /\ devices[last.id].deploy_date = NoDate
    /\ Len(device_log) = last.log_before + 1
    /\ Len(device_log) >= 2
    /\ device_log[Len(device_log) - 1] =
           DeviceLog(last.id, "deployed", IN_STOCK, DEPLOYED, "note")
    /\ device_log[Len(device_log)] =
           DeviceLog(last.id, "recalled", DEPLOYED, IN_STOCK, last.arg.notes)


\* C11: telemetry for a stored device that is not deployed is answered 400,
\* telemetry for an id that is not stored is answered 404, and in both cases
\* nothing is published (and nothing else changes).
C11_TelemetryGate ==
    [][ Handled("telemetry")
        => LET d == last'.id IN
           /\ (d \in DOMAIN devices /\ devices[d].status # DEPLOYED)
                => /\ last'.result = HTTP_BAD_REQUEST
                   /\ published' = published
           /\ d \notin DOMAIN devices
                => /\ last'.result = HTTP_NOT_FOUND
                   /\ published' = published
           /\ published' # published
                => d \in DOMAIN devices /\ devices[d].status = DEPLOYED ]_vars

\* Telemetry of a device in maintenance was refused.
C11_Witness ==
    /\ last.op = "telemetry"
    /\ last.found
    /\ last.pre.status = MAINTENANCE
    /\ last.result = HTTP_BAD_REQUEST
    /\ published = << >>


\* C12: an event of reserve is published only by a request whose status
\* change is committed, in the step that ends it with 200; a request that is
\* refused or whose commit raises publishes nothing; and the end of a
\* request after its commit -- published, publish failed, or the process
\* died in between -- leaves the Device table, so the committed status, as
\* it is.
C12_PublishAfterCommitNoRollback ==
    [][ /\ published' # published
          => \E w \in StepWorkers :
                /\ wk[w].op = "reserve" /\ wk[w].committed /\ wk[w].pc = "logged"
                /\ wk'[w].pc = "idle"
                /\ Len(published') = Len(published) + 1
                /\ published'[Len(published')].device_id = wk[w].id
                /\ responses'[Len(responses')].result = HTTP_OK
        /\ \A w \in StepWorkers :
              (wk[w].committed /\ wk'[w].pc = "idle") => devices' = devices
        /\ \A w \in StepWorkers :
              (wk[w].pc # "idle" /\ ~wk[w].committed /\ wk'[w].pc = "idle")
                => published' = published /\ devices' = devices ]_vars

\* The process died after the commit of a reserve: the request has no
\* answer, no event is out, and the device is stored as reserved.
C12_Witness ==
    /\ \E i \in DOMAIN responses :
          /\ responses[i].op = "reserve"
          /\ responses[i].result = 0
          /\ responses[i].committed
          /\ devices[responses[i].id].status = RESERVED
    /\ published = << >>
    /\ \A w \in StepWorkers : wk[w].pc = "idle"


\* C13: when the commit of the log entry raises after the status change is
\* committed, the request is still answered 200, no entry is written, and
\* the device keeps the new status and the fields the operation set.
C13_LogFailureKeepsState ==
    [][ (nops' = nops + 1 /\ last'.log_raised)
        => LET d == last'.id
               op == last'.op IN
           /\ op \in LoggedOps
           /\ last'.committed
           /\ last'.result = HTTP_OK
           /\ device_log' = device_log
           /\ op = "reserve" => devices' = [devices EXCEPT ![d].status = RESERVED]
           /\ op = "deploy"
                => devices' = [devices EXCEPT ![d].status = DEPLOYED,
                                              ![d].location = last'.arg.location,
                                              ![d].deploy_date = nops']
           /\ op = "recall"
                => /\ devices'[d].status = IN_STOCK
                   /\ devices'[d].deploy_date = NoDate
           /\ op = "maintenance"
                => devices' = [devices EXCEPT ![d].status = MAINTENANCE,
                                              ![d].last_maintenance_date = nops']
           /\ op = "status_change" => devices'[d].status = last'.arg.status ]_vars

\* A deploy whose log entry could not be written: answered 200, the device
\* is deployed, the log is as long as before.
C13_Witness ==
    /\ last.op = "deploy"
    /\ last.log_raised
    /\ last.result = HTTP_OK
    /\ last.pre.status = IN_STOCK
    /\ devices[last.id].status = DEPLOYED
    /\ devices[last.id].deploy_date = nops
    /\ Len(device_log) = last.log_before


\* C14: the update of the descriptive fields leaves status, serial_number,
\* type, deploy_date and last_maintenance_date of the addressed device, its
\* id, every other device, the log and the bus as they are, also when the
\* body names status; for an id that is not stored it is answered 404 and
\* nothing changes.
C14_UpdateFieldsFrame ==
    [][ Handled("update")
        => LET d == last'.id IN
           /\ DOMAIN devices' = DOMAIN devices
           /\ device_log' = device_log
           /\ published' = published
           /\ \A o \in DOMAIN devices :
                 /\ o # d => devices'[o] = devices[o]
                 /\ devices'[o].status = devices[o].status
                 /\ devices'[o].serial_number = devices[o].serial_number
                 /\ devices'[o].type = devices[o].type
                 /\ devices'[o].deploy_date = devices[o].deploy_date
                 /\ devices'[o].last_maintenance_date = devices[o].last_maintenance_date
           /\ d \notin DOMAIN devices
                => last'.result = HTTP_NOT_FOUND /\ devices' = devices ]_vars

\* Two devices are stored; the second was updated by a body that also names
\* status, it has the new descriptive fields and its old status.
C14_Witness ==
    /\ last.op = "update"
    /\ last.result = HTTP_OK
    /\ last.id = 2
    /\ last.arg.status = RETIRED
    /\ Len(devices) = 2
    /\ devices[2].location = "L2"
    /\ devices[2].description = "d1"
    /\ devices[2].status = IN_STOCK
    /\ devices[1].description = None


\* C15: the direct status set of a stored device is answered 200 whatever
\* the stored and the requested status (unless the commit raises); then the
\* status is the requested one, the location is the one of the request if
\* it carries one and the stored one otherwise, nothing else of the table
\* changes, and one entry (status_change, stored status, requested status)
\* is appended to the log (none if the commit of the entry raises).
C15_DirectStatusSet ==
    [][ HandledOn("status_change")
        => LET d == last'.id
               st == last'.arg.status
               l == last'.arg.location IN
           /\ last'.result = HTTP_OK <=> ~last'.raised
           /\ last'.result # HTTP_OK => devices' = devices /\ device_log' = device_log
           /\ last'.result = HTTP_OK
                => /\ devices' = [devices EXCEPT
                                    ![d].status = st,
                                    ![d].location = IF l \in {None, ""} THEN @ ELSE l]
                   /\ device_log' =
                        IF last'.log_raised THEN device_log
                        ELSE Append(device_log,
                                    DeviceLog(d, "status_change", devices[d].status, st,
                                              last'.arg.notes)) ]_vars

\* A retired device was set to reserved by a request without a location.
C15_Witness ==
    /\ last.op = "status_change"
    /\ last.result = HTTP_OK
    /\ last.pre.status = RETIRED
    /\ last.arg.status = RESERVED
    /\ last.arg.location = None
    /\ devices[last.id].status = RESERVED
    /\ devices[last.id].location = last.pre.location
    /\ Len(device_log) = last.log_before + 1
    /\ device_log[Len(device_log)] =
           DeviceLog(last.id, "status_change", RETIRED, RESERVED, last.arg.notes)


\* C16: a listing returns as total the number N of devices that match its
\* filter, and as window the devices at the places (page-1)*P+1 .. page*P of
\* the matching devices in insertion order (so at most P of them, none
\* past the end); the windows of two different pages of one filter and
\* page size share no device.
InInsertionOrder(rows) ==
    [k \in 1..Cardinality(rows) |->
        CHOOSE i \in rows : Cardinality({j \in rows : j < i}) = k - 1]

Range(s) == {s[k] : k \in DOMAIN s}

C16_Pagination ==
    /\ \A i \in DOMAIN responses :
          LET r == responses[i]
              rows == Matching(devices, r.status, r.device_type)
              n == Cardinality(rows)
              offset == (r.page - 1) * r.page_size
          IN /\ r.total = n
             /\ Len(r.devices) <= r.page_size
             /\ r.devices = SubSeq(InInsertionOrder(rows), offset + 1,
                                   Min(offset + r.page_size, n))
    /\ \A i, j \in DOMAIN responses :
          ( /\ responses[i].status = responses[j].status
            /\ responses[i].device_type = responses[j].device_type
            /\ responses[i].page_size = responses[j].page_size
            /\ responses[i].page # responses[j].page )
          => Range(responses[i].devices) \cap Range(responses[j].devices) = {}


\* C17: reserve, deploy, recall, send_to_maintenance, retire and the direct
\* status set, addressed to an id that is not stored, are answered 404 and
\* leave the Device table, the log and the bus as they are.
LifecycleOps == {"reserve", "deploy", "recall", "maintenance", "retire", "status_change"}

C17_NotFound ==
    [][ (nops' = nops + 1 /\ last'.op \in LifecycleOps /\ last'.id \notin DOMAIN devices)
        => /\ last'.result = HTTP_NOT_FOUND
           /\ ~last'.committed
           /\ devices' = devices
           /\ device_log' = device_log
           /\ published' = published ]_vars

\* One device is stored, with events and log entries of its own; the
\* retire of device 2 was answered 404.
C17_Witness ==
    /\ last.op = "retire"
    /\ last.id = 2
    /\ ~last.found
    /\ last.result = HTTP_NOT_FOUND
    /\ Len(devices) = 1
    /\ devices[1].status = RESERVED
    /\ Len(device_log) = 1


\* C18: when the store refuses the commit of a mutating request, the stored
\* state is as it was before the request and the outcome is the internal
\* error, not the answer for a missing device, a duplicate serial_number
\* or an illegal transition.
C18_CommitFailureIsInternalError ==
    [][ (nops' = nops + 1 /\ last'.raised)
        => /\ devices' = devices
           /\ last'.result = HTTP_INTERNAL ]_vars


\* C19: a create answered 201 adds exactly one device, whose id is not the
\* id of any device stored before, with status in_stock and deploy_date
\* unset; the devices stored before are untouched, and a create that is
\* not answered 201 stores nothing.
C19_CreateStoresInStock ==
    [][ Handled("create")
        => IF last'.result = HTTP_CREATED
           THEN /\ Len(devices') = Len(devices) + 1
                /\ last'.id = Len(devices')
                /\ last'.id \notin DOMAIN devices
                /\ devices'[last'.id].status = IN_STOCK
                /\ devices'[last'.id].deploy_date = NoDate
                /\ devices'[last'.id].serial_number = last'.arg.serial_number
                /\ \A i \in DOMAIN devices : devices'[i] = devices[i]
           ELSE devices' = devices ]_vars

\* The second device was created while the first one, no longer in
\* stock, was stored.
C19_Witness ==
    /\ last.op = "create"
    /\ last.result = HTTP_CREATED
    /\ last.id = 2
    /\ Len(devices) = 2
    /\ devices[1].status # IN_STOCK
    /\ devices[2].status = IN_STOCK
    /\ devices[2].deploy_date = NoDate

\* C20: no operation erases a device or changes the type or the
\* serial_number stored under an id.
C20_DevicesKeptIdentityImmutable ==
    [][ /\ Len(devices') >= Len(devices)
        /\ \A i \in DOMAIN devices :
              /\ devices'[i].type = devices[i].type
              /\ devices'[i].serial_number = devices[i].serial_number ]_vars

\* Device 1 was retired while device 2 was stored, and both are still
\* stored under their serial numbers.
C20_Witness ==
    /\ last.op = "retire"
    /\ last.result = HTTP_OK
    /\ last.id = 1
    /\ Len(devices) = 2
    /\ devices[1].status = RETIRED
    /\ devices[1].serial_number # devices[2].serial_number


\* C21: every step leaves the DeviceLog entries written before it in
\* place, unchanged and in the same order; it may only append.
C21_LogAppendOnly ==
    [][ /\ Len(device_log') >= Len(device_log)
        /\ SubSeq(device_log', 1, Len(device_log)) = device_log ]_vars

\* A device with a log entry of its own was retired, and the entry is
\* still there.
C21_Witness ==
    /\ last.op = "retire"
    /\ last.result = HTTP_OK
    /\ devices[last.id].status = RETIRED
    /\ last.log_before = 1
    /\ Len(device_log) = 1
    /\ device_log[1].device_id = last.id

\* C22: the status of every stored device is one of the five values of
\* DeviceStatus.
C22_StatusInEnum ==
    \A i \in DOMAIN devices : devices[i].status \in DeviceStatus

\* The commit of a direct status set raised after an earlier status set
\* had gone through.
C22_Witness ==
    /\ last.op = "status_change"
    /\ last.found
    /\ last.raised
    /\ devices[last.id].status = MAINTENANCE
    /\ devices[last.id].status \in DeviceStatus

\* C23: a reserve whose commit went through and whose publish failed is
\* not answered as an ordinary success.
C23_PublishFailureSurfaced ==
    [][ (HandledOn("reserve") /\ last'.committed /\ published' = published)
        => /\ last'.result # HTTP_OK
           /\ devices'[last'.id].status = RESERVED ]_vars


\* C30: a telemetry or an event request, whatever its answer, leaves every
\* device and the DeviceLog as they are.
C30_IngestionFrame ==
    [][ (nops' = nops + 1 /\ last'.op \in {"telemetry", "event"})
        => devices' = devices /\ device_log' = device_log ]_vars

\* An event was relayed for device 1, which is stored and has a log entry.
C30_Witness ==
    /\ last.op = "event"
    /\ last.result = HTTP_OK
    /\ last.id = 1
    /\ Len(devices) = 1
    /\ Len(device_log) = 1
    /\ Len(published) >= 1
    /\ published[Len(published)].event_type = "alert"


\* The DeviceLog entries of one device, in the order they were written.
LogOf(device_id) == SelectSeq(device_log, LAMBDA entry : entry.device_id = device_id)

\* C28: the entries of each device form a chain of statuses: the first
\* starts at in_stock, each starts where the one before ended, and the
\* last ends at the status the device is stored with.
C28_LogChain ==
    \A d \in DOMAIN devices :
       LET entries == LogOf(d)
       IN Len(entries) > 0
          => /\ entries[1].old_status = IN_STOCK
             /\ \A k \in 1..(Len(entries) - 1) :
                   entries[k + 1].old_status = entries[k].new_status
             /\ entries[Len(entries)].new_status = devices[d].status

\* C29: a deployed device has a deploy_date, an in_stock device has none.
C29_DeployDateMatchesStatus ==
    \A d \in DOMAIN devices :
       /\ devices[d].status = DEPLOYED => devices[d].deploy_date # NoDate
       /\ devices[d].status = IN_STOCK => devices[d].deploy_date = NoDate


\* C24: nothing makes the commit of a deploy depend on the row still being
\* as the request read it: a deploy that has passed its status check can
\* commit deployed in every state, also when another request has changed
\* the row since; so two deploys that both read in_stock both succeed.
C24_DeployCommitUnconditional ==
    \A w \in StepWorkers :
       (wk[w].pc = "queried" /\ wk[w].op = "deploy")
          => ENABLED (/\ step_commit(w, TRUE)
                      /\ wk'[w].pc = "committed"
                      /\ devices'[wk[w].id].status = DEPLOYED)

\* Two deploys of device 1 were both answered 200 after their commits,
\* and both logged in_stock as the status they found.
C24_Witness ==
    /\ \E i, j \in DOMAIN responses :
          /\ i < j
          /\ \A k \in {i, j} :
                /\ responses[k].op = "deploy"
                /\ responses[k].id = 1
                /\ responses[k].result = HTTP_OK
                /\ responses[k].committed
          /\ responses[i].worker # responses[j].worker
    /\ \E i, j \in DOMAIN device_log :
          /\ i < j
          /\ \A k \in {i, j} :
                /\ device_log[k].action = ActionOf("deploy")
                /\ device_log[k].device_id = 1
                /\ device_log[k].old_status = IN_STOCK
    /\ devices[1].status = DEPLOYED


\* C25: the old_status a request logs is the status the row has in the
\* store when the request commits, and the new_status is the one the
\* commit writes.
C25_LoggedStatusIsFresh ==
    [][ \A w \in StepWorkers :
          /\ (wk[w].pc = "queried" /\ wk'[w].pc = "committed")
                => /\ wk[w].old_status = devices[wk[w].id].status
                   /\ wk[w].pending.status = devices'[wk[w].id].status
          /\ (wk[w].pc = "committed" /\ device_log' # device_log /\ wk'[w].pc # "committed")
                => /\ device_log'[Len(device_log')].old_status = wk[w].old_status
                   /\ device_log'[Len(device_log')].new_status = wk[w].pending.status ]_vars

\* C27: of the reserve requests on one device that has not been back in
\* stock, at most one is answered 200, and they leave at most one
\* reserved entry and one device_reserved event.
C27_OneReservePerDevice ==
    \A d \in DOMAIN devices :
       /\ Cardinality({i \in DOMAIN responses :
                          /\ responses[i].op = "reserve"
                          /\ responses[i].id = d
                          /\ responses[i].result = HTTP_OK}) <= 1
       /\ Cardinality({i \in DOMAIN device_log :
                          /\ device_log[i].action = ActionOf("reserve")
                          /\ device_log[i].device_id = d}) <= 1
       /\ Cardinality({i \in DOMAIN published :
                          /\ published[i].event_type = "device_reserved"
                          /\ published[i].device_id = d}) <= 1


\* C26: when publish_telemetry is called for a device, the device is
\* stored as deployed.
C26_TelemetryOnlyWhileDeployed ==
    [][ \A w \in StepWorkers :
          (wk[w].pc = "checked" /\ wk'[w].pc = "idle" /\ published' # published)
             => devices[wk[w].id].status = DEPLOYED ]_vars

====
